---- MODULE Spec2Model ----
(***************************************************************************)
(* Model of generate_icon.py (Vellum app icon generator).                  *)
(*                                                                         *)
(* create_app_icon(size) renders an RGBA raster through a fixed sequence   *)
(* of Pillow drawing and compositing calls; main() renders the 1024 icon,  *)
(* creates the asset directory and writes AppIcon.png and Contents.json.   *)
(*                                                                         *)
(* A raster is followed at one probe pixel (px, py): every image is the    *)
(* record [made, w, h, v] of its dimensions and its value v at the probe.  *)
(* The probe is drawn from a grid of the coordinates at which the drawn    *)
(* shapes begin and end, so each region of the picture is visited.         *)
(***************************************************************************)
EXTENDS Integers, Sequences, FiniteSets, TLC

\* ---------------------------------------------------------------- bounds

\* create_app_icon is explored for every size 1..MaxSmallSize and for 1024
MaxSmallSize == 48
\* main is run at most this many times in a row
MaxRuns == 2

\* --------------------------------------------------- program constants

\* the size main passes to create_app_icon (line 122)
MainIconSize == 1024
\* for i in range(4) (line 104)
PageLines == 4

top_color == <<153, 115, 89>>
bottom_color == <<115, 77, 51>>
panel_fill == <<255, 255, 255, 51>>
book_color == <<255, 255, 255, 255>>
spine_fill == <<200, 150, 100, 80>>
pages_fill == <<220, 180, 140, 120>>
transparent == <<0, 0, 0, 0>>

\* ------------------------------------------------------------ arithmetic

Abs(n) == IF n < 0 THEN -n ELSE n
Min(a, b) == IF a < b THEN a ELSE b
Max(a, b) == IF a < b THEN b ELSE a

\* int(n * p / q) for the float products of the source, n >= 0: the double
\* product truncates to floor(n*p/q) for every n up to 2048 (checked
\* against the interpreter for each constant used below).
Trunc(n, p, q) == (n * p) \div q

\* -------------------------------------------------------------- geometry

\* mutant: the radius truncated to nothing
MutCornerRadius(size) == 0
corner_radius(size) == Trunc(size, 22, 100)
rect_size(size) == Trunc(size, 55, 100)
rect_x(size) == (size - rect_size(size)) \div 2
rect_y(size) == (size - rect_size(size)) \div 2
rect_radius(size) == Trunc(size, 95, 1000)
book_width(size) == Trunc(size, 32, 100)
book_height(size) == Trunc(size, 40, 100)
book_x(size) == (size - book_width(size)) \div 2
book_y(size) == (size - book_height(size)) \div 2
spine_w(size) == Trunc(book_width(size), 18, 100)
book_radius(size) == Trunc(size, 2, 100)
spine_x(size) == book_x(size) + spine_w(size)
spine_y0(size) == book_y(size) + Trunc(size, 15, 1000)
spine_y1(size) == book_y(size) + book_height(size) - Trunc(size, 15, 1000)
spine_width(size) == Trunc(size, 8, 1000)
pages_width(size) == Trunc(size, 25, 1000)
pages_x(size) == book_x(size) + book_width(size) - pages_width(size)
line_x(i, size) == pages_x(size) + Trunc(i * size, 5, 1000)
pages_y0(size) == book_y(size) + Trunc(size, 25, 1000)
pages_y1(size) == book_y(size) + book_height(size) - Trunc(size, 25, 1000)
pages_line_width(size) == Trunc(size, 3, 1000)

\* ------------------------------------------------------ gradient (30-35)

\* mutant: the row ratio taken one row late, (y + 1) / size
MutLerp(t, b, y, size) == (t * size + (b - t) * (y + 1)) \div size

\* int(top + (bottom - top) * (y / size)) for one channel
Lerp(t, b, y, size) == (t * size + (b - t) * y) \div size

GradientRowColor(size, y) ==
    << Lerp(top_color[1], bottom_color[1], y, size),
       Lerp(top_color[2], bottom_color[2], y, size),
       Lerp(top_color[3], bottom_color[3], y, size) >>

\* draw.line([(0, y), (size, y)], fill=(r, g, b)) for y in range(size): the
\* one-pixel horizontal line, clipped to the canvas, covers row y, and an
\* RGB ink on an RGBA image is stored with alpha 255.
GradientPixel(size, x, y) ==
    LET c == GradientRowColor(size, y) IN <<c[1], c[2], c[3], 255>>

\* ---------------------------------------------- Pillow drawing primitives

\* draw_rectangle with fill: both corners inclusive
RectangleCovers(x0, y0, x1, y1, x, y) ==
    /\ x0 <= x /\ x <= x1
    /\ y0 <= y /\ y <= y1

\* quarter_delta: the deviation of the point (x, y), in doubled coordinates
\* about the centre, from the ellipse of axes a, b. For a circle (a = b) the
\* common factor a*a is divided out, which keeps the order of deviations.
QuarterDelta(a, b, x, y) ==
    IF a = b THEN Abs(x * x + y * y - a * a)
    ELSE Abs(a * a * y * y + b * b * x * x - a * a * b * b)

\* quarter_next from the point s = <<cx, cy>>: the next point of the
\* Bresenham walk along the quarter ellipse. The walk is stopped on row Y
\* (the first point yielded on a row is the widest one of that row) and at
\* its end point <<a % 2, b>>.
QuarterNext(a, b, Y, s) ==
    LET cx == s[1]
        cy == s[2]
    IN  IF cy = Y \/ (cx = a % 2 /\ cy = b) \/ cy > b THEN s
        ELSE IF cx > 1
             THEN LET d1 == QuarterDelta(a, b, cx, cy + 2)
                      d2 == QuarterDelta(a, b, cx - 2, cy + 2)
                      d3 == QuarterDelta(a, b, cx - 2, cy)
                  IN  IF d1 > d2
                      THEN IF d2 > d3 THEN <<cx - 2, cy>>
                                      ELSE <<cx - 2, cy + 2>>
                      ELSE IF d1 > d3 THEN <<cx - 2, cy>>
                                      ELSE <<cx, cy + 2>>
             ELSE <<cx, cy + 2>>

\* n steps of QuarterNext from s, ended early on row Y (halving n keeps
\* the evaluation shallow)
RECURSIVE QuarterRun(_, _, _, _, _)
QuarterRun(a, b, Y, s, n) ==
    IF n = 0 THEN s
    ELSE IF n = 1 THEN QuarterNext(a, b, Y, s)
    ELSE LET mid == QuarterRun(a, b, Y, s, n \div 2)
         IN  IF mid[2] = Y THEN mid
             ELSE QuarterRun(a, b, Y, mid, n - (n \div 2))

\* the half-width (doubled) of the ellipse on row Y, or -1 if the walk from
\* <<a, b % 2>> never yields a point on that row; a + b + 1 steps end it
QuarterWalk(a, b, Y) ==
    LET s == QuarterRun(a, b, Y, <<a, b % 2>>, a + b + 1)
    IN  IF s[2] = Y THEN s[1] ELSE -1

\* draw_ellipse with fill over the box (x0, y0, x1, y1): row by row the
\* span between the mirrored widest points of the quarter walk.
EllipseCovers(x0, y0, x1, y1, x, y) ==
    LET a == x1 - x0
        b == y1 - y0
        X == 2 * (x - x0) - a
        Y == 2 * (y - y0) - b
    IN  /\ a >= 0 /\ b >= 0
        /\ Abs(Y) <= b /\ Abs(X) <= a
        /\ Abs(X) <= QuarterWalk(a, b, Abs(Y))

\* draw_pieslice with fill: the ellipse clipped to the sector start..end
\* (degrees clockwise from 3 o'clock, y downwards), its radii included.
PiesliceCovers(x0, y0, x1, y1, start, end, x, y) ==
    LET X == 2 * (x - x0) - (x1 - x0)
        Y == 2 * (y - y0) - (y1 - y0)
    IN  /\ EllipseCovers(x0, y0, x1, y1, x, y)
        /\ CASE start = 180 /\ end = 270 -> X <= 0 /\ Y <= 0
             [] start = 270 /\ end = 360 -> X >= 0 /\ Y <= 0
             [] start = 0 /\ end = 90 -> X >= 0 /\ Y >= 0
             [] start = 90 /\ end = 180 -> X <= 0 /\ Y >= 0
             [] start = 180 /\ end = 360 -> Y <= 0
             [] start = 0 /\ end = 180 -> Y >= 0
             [] start = 90 /\ end = 270 -> X <= 0
             [] start = 270 /\ end = 90 -> X >= 0

\* ImageDraw.rounded_rectangle(xy, radius, fill): the ellipse when all four
\* corners join, the plain rectangle when the radius is 0, else the corner
\* pie slices and the rectangles between them.
RoundedRectangleCovers(x0, y0, x1, y1, radius, x, y) ==
    LET d0 == radius * 2
        full_x == d0 >= x1 - x0 - 1
        d1 == IF full_x THEN x1 - x0 ELSE d0
        full_y == d1 >= y1 - y0 - 1
        d == IF full_y THEN y1 - y0 ELSE d1
        r == d \div 2
    IN  IF full_x /\ full_y THEN EllipseCovers(x0, y0, x1, y1, x, y)
        ELSE IF d = 0 THEN RectangleCovers(x0, y0, x1, y1, x, y)
        ELSE IF full_x
             THEN \/ PiesliceCovers(x0, y0, x0 + d, y0 + d, 180, 360, x, y)
                  \/ PiesliceCovers(x0, y1 - d, x0 + d, y1, 0, 180, x, y)
                  \/ RectangleCovers(x0, y0 + r + 1, x1, y1 - r - 1, x, y)
        ELSE IF full_y
             THEN \/ PiesliceCovers(x0, y0, x0 + d, y0 + d, 90, 270, x, y)
                  \/ PiesliceCovers(x1 - d, y0, x1, y0 + d, 270, 90, x, y)
                  \/ RectangleCovers(x0 + r + 1, y0, x1 - r - 1, y1, x, y)
        ELSE \/ PiesliceCovers(x0, y0, x0 + d, y0 + d, 180, 270, x, y)
             \/ PiesliceCovers(x1 - d, y0, x1, y0 + d, 270, 360, x, y)
             \/ PiesliceCovers(x1 - d, y1 - d, x1, y1, 0, 90, x, y)
             \/ PiesliceCovers(x0, y1 - d, x0 + d, y1, 90, 180, x, y)
             \/ RectangleCovers(x0 + r + 1, y0, x1 - r - 1, y1, x, y)
             \/ RectangleCovers(x0, y0 + r + 1, x0 + r, y1 - r - 1, x, y)
             \/ RectangleCovers(x1 - r, y0 + r + 1, x1, y1 - r - 1, x, y)

\* ImageDraw.line for a vertical segment (x, y0)-(x, y1), y0 <= y1: one
\* pixel wide for width <= 1, else the polygon reaching ROUND_DOWN((w-1)/2)
\* to the left and ROUND_UP((w-1)/2) to the right of x.
VLineCovers(lx, y0, y1, width, x, y) ==
    IF width <= 1 THEN x = lx /\ Min(y0, y1) <= y /\ y <= Max(y0, y1)
    ELSE IF y0 = y1 THEN x = lx /\ y = y0
    ELSE /\ lx - ((width - 1) \div 2) <= x
         /\ x <= lx + (width \div 2)
         /\ Min(y0, y1) <= y /\ y <= Max(y0, y1)

\* --------------------------------------------------------- compositing

\* SHIFTFORDIV255(n) = ((n >> 8) + n) >> 8
ShiftForDiv255(n) == ((n \div 256) + n) \div 256

\* one channel of Image.alpha_composite
BlendChannel(s, d, coef1, coef2) ==
    ShiftForDiv255(s * coef1 + d * coef2 + 16384) \div 128

\* ImagingAlphaComposite at one pixel: src over dst
CompositeOver(dst, src) ==
    IF src[4] = 0 THEN dst
    ELSE LET blend == dst[4] * (255 - src[4])
             outa255 == src[4] * 255 + blend
             coef1 == (src[4] * 255 * 255 * 128) \div outa255
             coef2 == 255 * 128 - coef1
         IN  << BlendChannel(src[1], dst[1], coef1, coef2),
                BlendChannel(src[2], dst[2], coef1, coef2),
                BlendChannel(src[3], dst[3], coef1, coef2),
                ShiftForDiv255(outa255 + 128) >>

\* mutant: the layers passed the other way round, the canvas over the layer
MutCompositeSwapped(im1, im2) == CompositeOver(im2, im1)

\* mutant: the result takes the layer's alpha instead of the union
MutCompositeSrcAlpha(im1, im2) ==
    [CompositeOver(im1, im2) EXCEPT ![4] = im2[4]]

\* Image.alpha_composite(im1, im2) at one pixel, as lines 58, 113 and 114
\* call it: the canvas first, the layer second, the layer over the canvas
AlphaCompositePixel(im1, im2) == CompositeOver(im1, im2)

\* img.putalpha(mask) at one pixel
PutAlphaPixel(p, m) == <<p[1], p[2], p[3], m>>

\* ------------------------------------------- the layers of create_app_icon

\* mask_draw.rounded_rectangle([(0, 0), (size, size)], radius=corner_radius,
\* fill=255) on the 'L' image filled with 0 (38-40)
MaskPixel(size, x, y) ==
    IF RoundedRectangleCovers(0, 0, size, size, corner_radius(size), x, y)
    THEN 255 ELSE 0

\* the translucent panel on its transparent layer (51-57)
PanelPixel(size, x, y) ==
    IF RoundedRectangleCovers(rect_x(size), rect_y(size),
                              rect_x(size) + rect_size(size),
                              rect_y(size) + rect_size(size),
                              rect_radius(size), x, y)
    THEN panel_fill ELSE transparent

\* the book cover on its transparent layer (72-84)
CoverPixel(size, x, y) ==
    IF RoundedRectangleCovers(book_x(size), book_y(size),
                              book_x(size) + book_width(size),
                              book_y(size) + book_height(size),
                              book_radius(size), x, y)
    THEN book_color ELSE transparent

\* the spine stroke (93-97)
SpineCovers(size, x, y) ==
    VLineCovers(spine_x(size), spine_y0(size), spine_y1(size),
                spine_width(size), x, y)

SpinePixel(size, x, y) ==
    IF SpineCovers(size, x, y) THEN spine_fill ELSE transparent

\* the four page strokes, drawn over the cover on the book layer (104-110):
\* a drawn ink replaces the pixel, alpha included
PagesCovers(size, x, y) ==
    \E i \in 0 .. PageLines - 1 :
        VLineCovers(line_x(i, size), pages_y0(size), pages_y1(size),
                    pages_line_width(size), x, y)

PagesPixel(size, x, y, under) ==
    IF PagesCovers(size, x, y) THEN pages_fill ELSE under

\* ------------------------------------------------------------- images

\* mutant: a layer one row taller than asked for
MutNewImage(size, fill) ==
    [made |-> TRUE, w |-> size, h |-> size + 1, v |-> fill]

\* Image.new(mode, (size, size), fill), seen at the probe pixel
NewImage(size, fill) == [made |-> TRUE, w |-> size, h |-> size, v |-> fill]

NoImage == [made |-> FALSE, w |-> 0, h |-> 0, v |-> transparent]
NoMask == [made |-> FALSE, w |-> 0, h |-> 0, v |-> 0]

\* Pillow refuses putalpha and alpha_composite on images of different sizes
SameSize(im1, im2) == im1.w = im2.w /\ im1.h = im2.h

\* Image.alpha_composite(im1, im2): a new image of im1's size
AlphaComposite(im1, im2) ==
    [made |-> TRUE, w |-> im1.w, h |-> im1.h,
     v |-> AlphaCompositePixel(im1.v, im2.v)]

\* ------------------------------------------------------------ the files

\* mutant: a manifest naming another size than the one rendered
MutContentsJson ==
    [images |-> << [filename |-> "AppIcon.png", idiom |-> "universal",
                    platform |-> "ios",
                    size |-> <<"5", "1", "2", "x", "5", "1", "2">>] >>,
     info |-> [author |-> "xcode", version |-> 1]]

\* the manifest text of lines 133-146; the size string by its characters
ContentsJson ==
    [images |-> << [filename |-> "AppIcon.png", idiom |-> "universal",
                    platform |-> "ios",
                    size |-> <<"1", "0", "2", "4", "x", "1", "0", "2", "4">>] >>,
     info |-> [author |-> "xcode", version |-> 1]]

\* what an earlier, different generator may have left behind
StaleManifest ==
    [images |-> << [filename |-> "AppIcon.png", idiom |-> "universal",
                    platform |-> "ios",
                    size |-> <<"5", "1", "2", "x", "5", "1", "2">>],
                   [filename |-> "AppIcon@2x.png", idiom |-> "universal",
                    platform |-> "ios",
                    size |-> <<"5", "1", "2", "x", "5", "1", "2">>] >>,
     info |-> [author |-> "xcode", version |-> 1]]
StaleIcon == [made |-> TRUE, w |-> 512, h |-> 512, v |-> <<9, 9, 9, 9>>]

NoFile == [exists |-> FALSE, data |-> <<>>]
\* a file opened for writing whose write never completed
TruncatedFile == [exists |-> TRUE, data |-> <<>>]

\* mutant: the file opened for appending
MutAppendFile(old, data) == [exists |-> TRUE, data |-> Append(old.data, data)]

\* icon.save(path) and open(path, 'w') + write: the file is replaced
WriteFile(old, data) == [exists |-> TRUE, data |-> <<data>>]

\* the components of output_dir: Vellum / Assets.xcassets / AppIcon.appiconset
PathDepth == 3
AllDirs == [i \in 1 .. PathDepth |-> "dir"]

\* mutant: exist_ok left at its default
MutExistOk == FALSE

\* os.makedirs(..., exist_ok=True) (line 126)
exist_ok == TRUE

\* os.makedirs on the first n components of the path, from the directory
\* state d (each name as the process sees it), on a file system that grants
\* k more mkdir calls and refuses the rest (PermissionError on a directory
\* that may not be written or searched, OSError on a read-only or full
\* file system): [ok, dirs, left]. The parent is made first when it does
\* not exist; mkdir succeeds on an absent name under a directory when it is
\* granted; its OSError is swallowed only when exist_ok and the name is a
\* directory; any other exception leaves makedirs with what was created.
RECURSIVE Makedirs(_, _, _)
Makedirs(d, n, k) ==
    LET up == IF n > 1 /\ d[n - 1] = "absent"
              THEN Makedirs(d, n - 1, k)
              ELSE [ok |-> TRUE, dirs |-> d, left |-> k]
        parentIsDir == n = 1 \/ up.dirs[n - 1] = "dir"
    IN  IF ~up.ok THEN up
        ELSE IF up.dirs[n] = "absent" /\ parentIsDir /\ up.left > 0
             THEN [ok |-> TRUE, dirs |-> [up.dirs EXCEPT ![n] = "dir"],
                   left |-> up.left - 1]
        ELSE IF exist_ok /\ up.dirs[n] = "dir"
             THEN [ok |-> TRUE, dirs |-> up.dirs, left |-> up.left]
        ELSE [ok |-> FALSE, dirs |-> up.dirs, left |-> up.left]

\* the events of one run of main, in program order
MainOrder ==
    << "generating_msg", "icon", "makedirs", "png", "saved_msg",
       "json", "updated_msg", "banner", "hint_msg" >>

\* ---------------------------------------------------------------- state

VARIABLES
    entry,          \* "create_app_icon" or "main": the function that was called
    size,           \* the size argument of create_app_icon
    px, py,         \* the probe pixel
    pc,             \* the statement about to run
    img,            \* the canvas
    mask,           \* the 'L' mask
    overlay,        \* the panel layer
    book_overlay,   \* the book layer (cover and pages)
    spine_indent,   \* the spine layer
    maskCount,      \* how often putalpha has run in this call
    maskAt,         \* at putalpha: the canvas alpha before it, the composites done
    composites,     \* the layers composited onto the canvas, in order
    afterBook,      \* the canvas pixel right after the book composite
    dirs,           \* the three path components: "absent", "dir" or "file"
    png,            \* AppIcon.png
    contents,       \* Contents.json
    events,         \* the events of this run of main, in order
    written,        \* the files this run has written completely
    failedAt,       \* the step whose exception ended this run, or "none"
    runs,           \* the number of the current run of main
    dirs0,          \* dirs at the start of this run
    granted,        \* the mkdir calls the file system granted to os.makedirs
                    \* in this run, -1 before the call
    prev            \* how the previous run ended

vars == << entry, size, px, py, pc, img, mask, overlay, book_overlay,
           spine_indent, maskCount, maskAt, composites, afterBook, dirs, png,
           contents, events, written, failedAt, runs, dirs0, granted, prev >>

renderVars == << img, mask, overlay, book_overlay, spine_indent, maskCount,
                 maskAt, composites, afterBook >>
fileVars == << dirs, png, contents >>
runVars == << events, written, failedAt, runs, dirs0, granted, prev >>
callVars == << entry, size, px, py >>

\* ------------------------------------------------------------- Init

Sizes == (1 .. MaxSmallSize) \cup {MainIconSize}

\* the coordinates where the shapes of the picture begin and end
Coords(S) ==
    { c \in { 0, 1, S \div 2, S - 2, S - 1,
              corner_radius(S), S - corner_radius(S),
              (corner_radius(S) * 3) \div 10, (corner_radius(S) * 3) \div 10 - 1,
              rect_x(S), rect_x(S) + rect_size(S),
              book_x(S), book_x(S) + book_width(S),
              book_y(S), book_y(S) + book_height(S),
              spine_x(S), spine_x(S) + (spine_width(S) \div 2),
              spine_y0(S), pages_x(S), line_x(PageLines - 1, S) } :
      0 <= c /\ c < S }

\* main is followed at a few pixels only
MainCoords(S) == { 0, spine_x(S), S \div 2 }

\* the directory states a file system can be in: below a name that is not
\* a directory there is nothing
DirStates ==
    { d \in [1 .. PathDepth -> {"absent", "dir", "file"}] :
        \A i \in 2 .. PathDepth : d[i - 1] # "dir" => d[i] = "absent" }

NoPrev == [ok |-> FALSE, png |-> NoFile, contents |-> NoFile, dirs0 |-> AllDirs]

InitRender ==
    /\ img = NoImage
    /\ mask = NoMask
    /\ overlay = NoImage
    /\ book_overlay = NoImage
    /\ spine_indent = NoImage
    /\ maskCount = 0
    /\ maskAt = [alphaBefore |-> 0, comps |-> 0]
    /\ composites = << >>
    /\ afterBook = transparent

InitCall ==
    /\ entry = "create_app_icon"
    /\ size \in Sizes
    /\ px \in Coords(size)
    /\ py \in Coords(size)
    /\ pc = "new_img"
    /\ dirs = AllDirs
    /\ png = NoFile
    /\ contents = NoFile

InitMain ==
    /\ entry = "main"
    /\ size = MainIconSize
    /\ px \in MainCoords(size)
    /\ py \in MainCoords(size)
    /\ pc = "main_start"
    /\ dirs \in DirStates
    /\ png \in IF dirs = AllDirs THEN {NoFile, WriteFile(NoFile, StaleIcon)}
                                ELSE {NoFile}
    /\ contents \in IF dirs = AllDirs
                    THEN {NoFile, WriteFile(NoFile, StaleManifest)}
                    ELSE {NoFile}

Init ==
    /\ InitRender
    /\ InitCall \/ InitMain
    /\ events = << >>
    /\ written = {}
    /\ failedAt = "none"
    /\ runs = 1
    /\ dirs0 = dirs
    /\ granted = -1
    /\ prev = NoPrev

\* ------------------------------------------------- create_app_icon steps

\* line 18
CreateCanvas ==
    /\ pc = "new_img"
    /\ img' = NewImage(size, transparent)
    /\ pc' = "gradient"
    /\ UNCHANGED << mask, overlay, book_overlay, spine_indent, maskCount,
                    maskAt, composites, afterBook >>
    /\ UNCHANGED << callVars, fileVars, runVars >>

\* lines 30-35: every row y in range(size) is drawn
GradientFill ==
    /\ pc = "gradient"
    /\ img' = [img EXCEPT !.v = GradientPixel(size, px, py)]
    /\ pc' = "mask_draw"
    /\ UNCHANGED << mask, overlay, book_overlay, spine_indent, maskCount,
                    maskAt, composites, afterBook >>
    /\ UNCHANGED << callVars, fileVars, runVars >>

\* lines 38-40
DrawMask ==
    /\ pc = "mask_draw"
    /\ mask' = NewImage(size, MaskPixel(size, px, py))
    /\ pc' = "putalpha"
    /\ UNCHANGED << img, overlay, book_overlay, spine_indent, maskCount,
                    maskAt, composites, afterBook >>
    /\ UNCHANGED << callVars, fileVars, runVars >>

\* line 41
PutAlpha ==
    /\ pc = "putalpha"
    /\ SameSize(img, mask)
    /\ img' = [img EXCEPT !.v = PutAlphaPixel(img.v, mask.v)]
    /\ maskCount' = maskCount + 1
    /\ maskAt' = [alphaBefore |-> img.v[4], comps |-> Len(composites)]
    /\ pc' = "panel_draw"
    /\ UNCHANGED << mask, overlay, book_overlay, spine_indent, composites,
                    afterBook >>
    /\ UNCHANGED << callVars, fileVars, runVars >>

\* lines 45-57
DrawPanel ==
    /\ pc = "panel_draw"
    /\ overlay' = NewImage(size, PanelPixel(size, px, py))
    /\ pc' = "composite_panel"
    /\ UNCHANGED << img, mask, book_overlay, spine_indent, maskCount, maskAt,
                    composites, afterBook >>
    /\ UNCHANGED << callVars, fileVars, runVars >>

\* line 58
CompositePanel ==
    /\ pc = "composite_panel"
    /\ SameSize(img, overlay)
    /\ img' = AlphaComposite(img, overlay)
    /\ composites' = Append(composites, "panel")
    /\ pc' = "cover_draw"
    /\ UNCHANGED << mask, overlay, book_overlay, spine_indent, maskCount,
                    maskAt, afterBook >>
    /\ UNCHANGED << callVars, fileVars, runVars >>

\* lines 63-84
DrawCover ==
    /\ pc = "cover_draw"
    /\ book_overlay' = NewImage(size, CoverPixel(size, px, py))
    /\ pc' = "spine_draw"
    /\ UNCHANGED << img, mask, overlay, spine_indent, maskCount, maskAt,
                    composites, afterBook >>
    /\ UNCHANGED << callVars, fileVars, runVars >>

\* lines 88-97
DrawSpine ==
    /\ pc = "spine_draw"
    /\ spine_indent' = NewImage(size, SpinePixel(size, px, py))
    /\ pc' = "pages_draw"
    /\ UNCHANGED << img, mask, overlay, book_overlay, maskCount, maskAt,
                    composites, afterBook >>
    /\ UNCHANGED << callVars, fileVars, runVars >>

\* lines 100-110: the four strokes, on the book layer
DrawPages ==
    /\ pc = "pages_draw"
    /\ book_overlay' =
           [book_overlay EXCEPT !.v = PagesPixel(size, px, py, book_overlay.v)]
    /\ pc' = "composite_book"
    /\ UNCHANGED << img, mask, overlay, spine_indent, maskCount, maskAt,
                    composites, afterBook >>
    /\ UNCHANGED << callVars, fileVars, runVars >>

\* line 113
CompositeBook ==
    /\ pc = "composite_book"
    /\ SameSize(img, book_overlay)
    /\ img' = AlphaComposite(img, book_overlay)
    /\ composites' = Append(composites, "book")
    /\ afterBook' = img'.v
    /\ pc' = "composite_spine"
    /\ UNCHANGED << mask, overlay, book_overlay, spine_indent, maskCount,
                    maskAt >>
    /\ UNCHANGED << callVars, fileVars, runVars >>

\* mutant: the mask applied a second time after the last composite
MutCompositeSpineRemask ==
    /\ pc = "composite_spine"
    /\ SameSize(img, spine_indent)
    /\ img' = [AlphaComposite(img, spine_indent) EXCEPT
                   !.v = PutAlphaPixel(AlphaCompositePixel(img.v, spine_indent.v),
                                       mask.v)]
    /\ maskCount' = maskCount + 1
    /\ maskAt' = [alphaBefore |-> img.v[4], comps |-> Len(composites)]
    /\ composites' = Append(composites, "spine")
    /\ pc' = "return"
    /\ UNCHANGED << mask, overlay, book_overlay, spine_indent, afterBook >>
    /\ UNCHANGED << callVars, fileVars, runVars >>

\* line 114
CompositeSpine ==
    /\ pc = "composite_spine"
    /\ SameSize(img, spine_indent)
    /\ img' = AlphaComposite(img, spine_indent)
    /\ composites' = Append(composites, "spine")
    /\ pc' = "return"
    /\ UNCHANGED << mask, overlay, book_overlay, spine_indent, maskCount,
                    maskAt, afterBook >>
    /\ UNCHANGED << callVars, fileVars, runVars >>

\* line 116: back to the caller; in main the result is bound to icon (122)
Return ==
    /\ pc = "return"
    /\ IF entry = "main"
       THEN /\ pc' = "makedirs"
            /\ events' = Append(events, "icon")
       ELSE /\ pc' = "returned"
            /\ events' = events
    /\ UNCHANGED << written, failedAt, runs, dirs0, granted, prev >>
    /\ UNCHANGED << callVars, fileVars, renderVars >>

\* ------------------------------------------------------------ main steps

\* a step of main that prints or completes: the event is logged
Emit(e, next) ==
    /\ events' = Append(events, e)
    /\ pc' = next

\* an exception leaves main: the run ends at this step
Raise(step) ==
    /\ pc' = "failed"
    /\ failedAt' = step

\* print(msg): the line is written, or print raises (UnicodeEncodeError on
\* a stdout whose encoding lacks a character of the message, BrokenPipeError
\* or OSError on a stdout that cannot be written) and nothing is written
PrintLine(msg, next) ==
    \/ Emit(msg, next) /\ failedAt' = failedAt
    \/ Raise(msg) /\ events' = events

\* line 119, then the call of line 122
PrintGenerating ==
    /\ pc = "main_start"
    /\ PrintLine("generating_msg", "new_img")
    /\ UNCHANGED << written, runs, dirs0, granted, prev >>
    /\ UNCHANGED << callVars, fileVars, renderVars >>

\* lines 125-126: os.makedirs on a file system that grants some number of
\* mkdir calls
MakeOutputDir ==
    /\ pc = "makedirs"
    /\ \E k \in 0 .. PathDepth :
       LET r == Makedirs(dirs, PathDepth, k)
       IN  /\ granted' = k
           /\ dirs' = r.dirs
           /\ IF r.ok
              THEN Emit("makedirs", "save") /\ failedAt' = failedAt
              ELSE Raise("makedirs") /\ events' = events
    /\ UNCHANGED << png, contents, written, runs, dirs0, prev >>
    /\ UNCHANGED << callVars, renderVars >>

\* lines 128-129: icon.save succeeds
SavePng ==
    /\ pc = "save"
    /\ dirs = AllDirs
    /\ png' = WriteFile(png, img)
    /\ written' = written \cup {"png"}
    /\ Emit("png", "print_saved")
    /\ UNCHANGED << dirs, contents, failedAt, runs, dirs0, granted, prev >>
    /\ UNCHANGED << callVars, renderVars >>

\* mutant: the exception of icon.save swallowed, the run goes on
MutSaveSwallowed ==
    /\ pc = "save"
    /\ png' \in {png, TruncatedFile}
    /\ pc' = "print_saved"
    /\ UNCHANGED << dirs, contents, events, written, failedAt, runs, dirs0, granted,
                    prev >>
    /\ UNCHANGED << callVars, renderVars >>

\* lines 128-129: icon.save raises (permission, disk full); the file is
\* untouched or left truncated
SaveRaises ==
    /\ pc = "save"
    /\ png' \in {png, TruncatedFile}
    /\ Raise("png")
    /\ UNCHANGED << dirs, contents, events, written, runs, dirs0, granted, prev >>
    /\ UNCHANGED << callVars, renderVars >>

\* line 130
PrintSaved ==
    /\ pc = "print_saved"
    /\ PrintLine("saved_msg", "write_json")
    /\ UNCHANGED << written, runs, dirs0, granted, prev >>
    /\ UNCHANGED << callVars, fileVars, renderVars >>

\* lines 148-150: open(contents_path, 'w') and f.write succeed
WriteContents ==
    /\ pc = "write_json"
    /\ dirs = AllDirs
    /\ contents' = WriteFile(contents, ContentsJson)
    /\ written' = written \cup {"json"}
    /\ Emit("json", "print_updated")
    /\ UNCHANGED << dirs, png, failedAt, runs, dirs0, granted, prev >>
    /\ UNCHANGED << callVars, renderVars >>

\* lines 148-150: open raises (the file is untouched) or write raises (the
\* file is left truncated)
WriteRaises ==
    /\ pc = "write_json"
    /\ contents' \in {contents, TruncatedFile}
    /\ Raise("json")
    /\ UNCHANGED << dirs, png, events, written, runs, dirs0, granted, prev >>
    /\ UNCHANGED << callVars, renderVars >>

\* line 151
PrintUpdated ==
    /\ pc = "print_updated"
    /\ PrintLine("updated_msg", "print_banner")
    /\ UNCHANGED << written, runs, dirs0, granted, prev >>
    /\ UNCHANGED << callVars, fileVars, renderVars >>

\* line 153
PrintBanner ==
    /\ pc = "print_banner"
    /\ PrintLine("banner", "print_hint")
    /\ UNCHANGED << written, runs, dirs0, granted, prev >>
    /\ UNCHANGED << callVars, fileVars, renderVars >>

\* line 154, and main returns
PrintHint ==
    /\ pc = "print_hint"
    /\ PrintLine("hint_msg", "done")
    /\ UNCHANGED << written, runs, dirs0, granted, prev >>
    /\ UNCHANGED << callVars, fileVars, renderVars >>

\* the script is run again (line 156-157), over whatever the last run left
Rerun ==
    /\ entry = "main"
    /\ pc \in {"done", "failed"}
    /\ runs < MaxRuns
    /\ runs' = runs + 1
    /\ prev' = [ok |-> pc = "done", png |-> png, contents |-> contents,
                dirs0 |-> dirs0]
    /\ dirs0' = dirs
    /\ granted' = -1
    /\ events' = << >>
    /\ written' = {}
    /\ failedAt' = "none"
    /\ pc' = "main_start"
    /\ img' = NoImage
    /\ mask' = NoMask
    /\ overlay' = NoImage
    /\ book_overlay' = NoImage
    /\ spine_indent' = NoImage
    /\ maskCount' = 0
    /\ maskAt' = [alphaBefore |-> 0, comps |-> 0]
    /\ composites' = << >>
    /\ afterBook' = transparent
    /\ UNCHANGED << callVars, fileVars >>

\* ------------------------------------------------------------------ spec

Next ==
    \/ CreateCanvas
    \/ GradientFill
    \/ DrawMask
    \/ PutAlpha
    \/ DrawPanel
    \/ CompositePanel
    \/ DrawCover
    \/ DrawSpine
    \/ DrawPages
    \/ CompositeBook
    \/ CompositeSpine
    \/ Return
    \/ PrintGenerating
    \/ MakeOutputDir
    \/ SavePng
    \/ SaveRaises
    \/ PrintSaved
    \/ WriteContents
    \/ WriteRaises
    \/ PrintUpdated
    \/ PrintBanner
    \/ PrintHint
    \/ Rerun

Spec == Init /\ [][Next]_vars

\* ================================================================ claims

Range(f) == { f[i] : i \in DOMAIN f }
IsPrefix(p, q) == Len(p) <= Len(q) /\ SubSeq(q, 1, Len(p)) = p
IndexOf(e, q) == CHOOSE i \in 1 .. Len(q) : q[i] = e

\* all three composites have run: img is the raster create_app_icon returns
Rendered == Len(composites) = 3

IsCorner == px \in {0, size - 1} /\ py \in {0, size - 1}
IsCenter == px = size \div 2 /\ py = size \div 2
Rgb(p) == <<p[1], p[2], p[3]>>

\* reading the manifest's size string "<W>x<H>" back as numbers
DigitValue(c) ==
    CASE c = "0" -> 0 [] c = "1" -> 1 [] c = "2" -> 2 [] c = "3" -> 3
      [] c = "4" -> 4 [] c = "5" -> 5 [] c = "6" -> 6 [] c = "7" -> 7
      [] c = "8" -> 8 [] c = "9" -> 9
RECURSIVE ParseInt(_, _)
ParseInt(cs, acc) ==
    IF cs = << >> THEN acc
    ELSE ParseInt(Tail(cs), acc * 10 + DigitValue(cs[1]))
ParseSize(cs) ==
    LET i == IndexOf("x", cs)
    IN  << ParseInt(SubSeq(cs, 1, i - 1), 0),
           ParseInt(SubSeq(cs, i + 1, Len(cs)), 0) >>

\* ------------------------------------------------------------------- C1

\* C1 as stated: for every canvas size the four corner pixels of the
\* returned raster have alpha 0 and the centre pixel has alpha 255.
C1_EverySize ==
    Rendered =>
        /\ IsCorner => img.v[4] = 0
        /\ IsCenter => img.v[4] = 255

\* C1 amended: for every canvas size of at least 23 (corner radius
\* int(0.22 * size) >= 5; so for 1024) the four corner pixels of the
\* returned raster have alpha 0 and the centre pixel has alpha 255.
C1_CornersTransparent ==
    Rendered /\ size >= 23 =>
        /\ IsCorner => img.v[4] = 0
        /\ IsCenter => img.v[4] = 255

\* the smallest such size, at the corner the mask rectangle overshoots
C1_Witness ==
    /\ pc = "returned"
    /\ size = 23
    /\ px = size - 1 /\ py = size - 1
    /\ img.v[4] = 0

\* ------------------------------------------------------------------- C2

\* C2 as stated: for every canvas size the gradient colour at column
\* size/2 is (153,115,89) on row 0, (115,77,51) on row size-1 and
\* (134,96,70) on row size/2.
C2_EverySize ==
    pc = "mask_draw" /\ px = size \div 2 =>
        /\ py = 0 => Rgb(img.v) = <<153, 115, 89>>
        /\ py = size - 1 => Rgb(img.v) = <<115, 77, 51>>
        /\ py = size \div 2 => Rgb(img.v) = <<134, 96, 70>>

\* C2 amended: for every canvas size of at least 39 the gradient colour at
\* column size/2, right after the gradient fill, is (153,115,89) on row 0,
\* (115,77,51) on row size-1 and (134,96,70) on row size/2.
C2_GradientRows ==
    pc = "mask_draw" /\ px = size \div 2 /\ size >= 39 =>
        /\ py = 0 => Rgb(img.v) = <<153, 115, 89>>
        /\ py = size - 1 => Rgb(img.v) = <<115, 77, 51>>
        /\ py = size \div 2 => Rgb(img.v) = <<134, 96, 70>>

\* the bottom row of the smallest such canvas
C2_Witness ==
    /\ pc = "mask_draw"
    /\ size = 39
    /\ px = size \div 2 /\ py = size - 1
    /\ img.v = <<115, 77, 51, 255>>

\* ------------------------------------------------------------------- C3

\* C3: the rounded-corner mask is applied to the canvas exactly once per
\* call, when the gradient has filled the canvas (its alpha is 255) and no
\* overlay has been composited; no composite happens before it and no
\* later step applies a mask again.
C3_MaskOnce ==
    /\ maskCount <= 1
    /\ maskCount = 1 => maskAt.alphaBefore = 255 /\ maskAt.comps = 0
    /\ composites # << >> => maskCount = 1
    /\ Rendered => maskCount = 1

\* a finished call at a pixel the mask made transparent
C3_Witness ==
    /\ Rendered
    /\ maskCount = 1
    /\ mask.v = 0
    /\ img.v[4] = 0

\* ------------------------------------------------------------------- C4

\* C4: the canvas, the mask and the three scratch layers are size x size
\* from their creation on, and the returned raster is size x size.
C4_Dimensions ==
    /\ img.made => img.w = size /\ img.h = size
    /\ mask.made => mask.w = size /\ mask.h = size
    /\ overlay.made => overlay.w = size /\ overlay.h = size
    /\ book_overlay.made => book_overlay.w = size /\ book_overlay.h = size
    /\ spine_indent.made => spine_indent.w = size /\ spine_indent.h = size
    /\ Rendered =>
           /\ img.made /\ mask.made /\ overlay.made
           /\ book_overlay.made /\ spine_indent.made
           /\ img.w = size /\ img.h = size

\* a returned raster of an odd size
C4_Witness ==
    /\ pc = "returned"
    /\ size = 7
    /\ img.w = 7 /\ img.h = 7

\* ------------------------------------------------------------------- C5

\* C5: after a successful run of main, Contents.json holds one manifest
\* with exactly one entry in images, whose size string reads as the pixel
\* dimensions of the AppIcon.png written by the same run.
C5_ManifestMatchesPng ==
    pc = "done" =>
        /\ contents.exists /\ Len(contents.data) = 1
        /\ Len(contents.data[1].images) = 1
        /\ png.exists /\ Len(png.data) = 1
        /\ png.data[1] = img
        /\ ParseSize(contents.data[1].images[1].size)
               = <<png.data[1].w, png.data[1].h>>

\* a successful run whose manifest reads 1024 x 1024
C5_Witness ==
    /\ pc = "done"
    /\ ParseSize(contents.data[1].images[1].size) = <<1024, 1024>>
    /\ png.data[1].w = 1024

\* ------------------------------------------------------------------- C6

\* C6: the events of a run of main are always a prefix of the fixed order
\* (generate, create directory, write png, 'Saved', write json, 'Updated',
\* banner); a message follows only its completed write; a run that failed
\* stopped right before the failing step (a write, the directory creation
\* or a print that raised) with no later write or message; the banner is
\* printed only when both files have been written by this run.
C6_LinearRun ==
    /\ IsPrefix(events, MainOrder)
    /\ "saved_msg" \in Range(events) =>
           "png" \in written /\ png = WriteFile(NoFile, img)
    /\ "updated_msg" \in Range(events) =>
           "json" \in written /\ contents = WriteFile(NoFile, ContentsJson)
    /\ "banner" \in Range(events) => written = {"png", "json"}
    /\ written = Range(events) \cap {"png", "json"}
    /\ pc = "failed" =>
           /\ failedAt \in Range(MainOrder)
           /\ Len(events) = IndexOf(failedAt, MainOrder) - 1
    /\ pc # "failed" => failedAt = "none"

\* a run that saved the image, said so, and failed on the manifest
C6_Witness ==
    /\ pc = "failed"
    /\ failedAt = "json"
    /\ events = <<"generating_msg", "icon", "makedirs", "png", "saved_msg">>

\* ------------------------------------------------------------------- C7

\* C7: a successful run leaves AppIcon.png as the rendered raster alone and
\* Contents.json as the manifest alone, whatever the files held before; so
\* after a second successful run both files are what they were after the
\* first.
C7_RerunIdempotent ==
    pc = "done" =>
        /\ png = WriteFile(NoFile, img)
        /\ contents = WriteFile(NoFile, ContentsJson)
        /\ runs >= 2 /\ prev.ok =>
               /\ contents = prev.contents
               /\ png.data[1].w = prev.png.data[1].w
               /\ png.data[1].h = prev.png.data[1].h
               /\ png = prev.png

\* the end of a second successful run after a first
C7_Witness ==
    /\ pc = "done"
    /\ runs = 2
    /\ prev.ok
    /\ contents = prev.contents

\* ------------------------------------------------------------------- C8

\* the path components that do not exist in d
Missing(d) == { i \in 1 .. PathDepth : d[i] = "absent" }

\* C8 as stated: a run of main over an output path whose components are
\* missing or directories ends with every component a directory, with no
\* error at directory creation and with both files written.
C8_AsStated ==
    /\ pc \in {"done", "failed"}
    /\ \A i \in 1 .. PathDepth : dirs0[i] \in {"absent", "dir"}
    => /\ dirs = AllDirs
       /\ failedAt # "makedirs"
       /\ written = {"png", "json"}

\* C8 amended: nothing is created before the image is generated. Directory
\* creation then either makes every missing component a directory, leaving
\* the existing ones alone, or raises; it raises exactly when a component
\* exists and is not a directory or the file system refuses the creation
\* of a missing one, so on a path that is already there it is a no-op that
\* does not fail. When it raises the run ends with no file written, no file
\* there at all, and the components that existed untouched. When it does
\* not, main proceeds to the writes, and a run that has ended has written
\* both files exactly when neither write nor the 'Saved' message between
\* them raised: a raise of the first write leaves none written by this run,
\* a raise of the message or of the second write leaves the first.
C8_MakedirsCreatesOrKeeps ==
    /\ granted \in -1 .. PathDepth
    /\ granted = -1 <=> pc = "makedirs" \/ "icon" \notin Range(events)
    /\ granted = -1 =>
           dirs = dirs0 /\ written = {} /\ failedAt # "makedirs"
    /\ granted # -1 =>
           /\ failedAt = "makedirs" <=>
                  \/ \E i \in 1 .. PathDepth : dirs0[i] = "file"
                  \/ granted < Cardinality(Missing(dirs0))
           /\ failedAt # "makedirs" =>
                  /\ dirs = AllDirs
                  /\ "makedirs" \in Range(events)
                  /\ \A i \in 1 .. PathDepth : dirs0[i] \in {"absent", "dir"}
    /\ failedAt = "makedirs" =>
           /\ pc = "failed"
           /\ dirs # AllDirs
           /\ \A i \in 1 .. PathDepth : dirs0[i] # "absent" => dirs[i] = dirs0[i]
           /\ written = {}
           /\ png = NoFile /\ contents = NoFile
    /\ dirs0 = AllDirs => dirs = AllDirs /\ failedAt # "makedirs"
    /\ "makedirs" \in Range(events) /\ pc \in {"done", "failed"} =>
           /\ written = {"png", "json"}
                  <=> failedAt \notin {"png", "saved_msg", "json"}
           /\ failedAt = "png" => written = {}
           /\ failedAt \in {"saved_msg", "json"} => written = {"png"}
    /\ pc = "done" => written = {"png", "json"} /\ dirs = AllDirs

\* a second successful run over the directories the first one created,
\* on a file system that by then grants no creation at all
C8_Witness ==
    /\ pc = "done"
    /\ runs = 2
    /\ prev.ok
    /\ prev.dirs0 = [i \in 1 .. PathDepth |-> "absent"]
    /\ dirs0 = AllDirs
    /\ granted = 0

\* ------------------------------------------------------------------- C9

\* C9: the composites run in the order panel, book, spine, each onto the
\* result of the one before; at every pixel the spine stroke covers the
\* final colour is (200,150,100) at alpha 80 over the book layer's result,
\* which over the white cover is (238,222,206,255).
C9_SpineOverBook ==
    /\ IsPrefix(composites, <<"panel", "book", "spine">>)
    /\ Rendered /\ SpineCovers(size, px, py) =>
           /\ spine_indent.v = spine_fill
           /\ img.v = CompositeOver(afterBook, spine_fill)
           /\ book_overlay.v = book_color => img.v = <<238, 222, 206, 255>>

\* a pixel of the 1024 icon where the spine lies over the white cover
C9_Witness ==
    /\ Rendered
    /\ size = MainIconSize
    /\ SpineCovers(size, px, py)
    /\ book_overlay.v = book_color
    /\ afterBook = <<255, 255, 255, 255>>

\* ------------------------------------------------------------------ C10

\* C10: for size 1024 every shape drawn on the panel, book and spine
\* layers lies in the band of columns where the mask is 255 on every row,
\* so every drawn layer pixel lies where the mask is 255; and from putalpha
\* on the canvas alpha equals the mask value at every step, so also in the
\* returned raster.
C10_AlphaIsMask ==
    size = MainIconSize =>
        LET lo == corner_radius(size) + 1
            hi == size - corner_radius(size) - 1
            InBand(a, b) == lo <= a /\ a <= b /\ b <= hi
        IN
        \* the columns lo..hi are opaque in the mask on every row, and every
        \* shape of the three layers lies within them
        /\ mask.made /\ lo <= px /\ px <= hi => mask.v = 255
        /\ InBand(rect_x(size), rect_x(size) + rect_size(size))
        /\ InBand(book_x(size), book_x(size) + book_width(size))
        /\ InBand(spine_x(size) - ((spine_width(size) - 1) \div 2),
                  spine_x(size) + (spine_width(size) \div 2))
        /\ \A i \in 0 .. PageLines - 1 :
               InBand(line_x(i, size) - ((pages_line_width(size) - 1) \div 2),
                      line_x(i, size) + (pages_line_width(size) \div 2))
        /\ overlay.made /\ overlay.v[4] # 0 => InBand(px, px)
        /\ book_overlay.made /\ book_overlay.v[4] # 0 => InBand(px, px)
        /\ spine_indent.made /\ spine_indent.v[4] # 0 => InBand(px, px)
        /\ overlay.made /\ overlay.v[4] # 0 => mask.v = 255
        /\ book_overlay.made /\ book_overlay.v[4] # 0 => mask.v = 255
        /\ spine_indent.made /\ spine_indent.v[4] # 0 => mask.v = 255
        /\ maskCount = 1 => img.v[4] = mask.v

\* a pixel of a page stroke (layer alpha 120) in the finished 1024 raster
C10_Witness ==
    /\ Rendered
    /\ size = MainIconSize
    /\ book_overlay.v = pages_fill
    /\ overlay.v = panel_fill
    /\ img.v[4] = 255

====
